---- MODULE Spec2Model ----
(***************************************************************************)
(* Model of the secure-password-manager vault: crypto_manager.py           *)
(* (CryptoManager), database.py (Database) and gui.py                      *)
(* (PasswordManagerGUI session: setup, unlock, lock, timers, credentials). *)
(*                                                                         *)
(* Conventions                                                             *)
(*   - a Python str is a sequence of one-character strings, "" is <<>>;    *)
(*   - a Python bytes value is a sequence of integers;                     *)
(*   - an Optional value is a sequence of length 0 (None / no file) or 1;  *)
(*   - PBKDF2, HMAC, AES and bcrypt are symbolic: the output is the term   *)
(*     of its inputs, so two outputs are equal exactly when the inputs     *)
(*     are (the cryptographic assumption every claim here rests on).       *)
(***************************************************************************)
EXTENDS Integers, Sequences, FiniteSets, TLC

VARIABLES
    salt_file,              \* salt.key: <<>> (absent) or <<bytes>>
    master_password_hash,   \* settings row 'master_password_hash': <<>> or <<hash>>
    credentials,            \* credentials table: a set of rows
    next_id,                \* AUTOINCREMENT counter of the credentials table
    screen,                 \* "setup" | "login" | "dashboard"
    dialog,                 \* add/edit dialog: <<>> or <<[credential |-> <<>> or <<row>>]>>
    crypto_manager,         \* self.crypto_manager: <<>> or <<CryptoManager>>
    is_locked,              \* self.is_locked
    auto_lock_timer,        \* self.auto_lock_timer: "None"|"pending"|"cancelled"|"fired"
    clipboard_timer,        \* self.clipboard_timer: same values
    orphan_timers,          \* Timer threads still waiting that no field refers to
    activity_bound,         \* root.bind("<Motion>"/"<Key>") has been installed
    clipboard,              \* system clipboard (a str)
    main_pc,                \* main thread: position inside a split callback
    main_ref,               \* main thread: the CryptoManager reference it loaded
    timer_pc,               \* auto-lock timer thread: position inside lock_vault
    last_op,                \* what the last handler did (observation only)
    secrets_log,            \* per row: the plaintext saved and who saved it (observation only)
    fn                      \* the cipher under test (pure-function checks)

vars == <<salt_file, master_password_hash, credentials, next_id, screen, dialog,
          crypto_manager, is_locked, auto_lock_timer, clipboard_timer,
          orphan_timers, activity_bound, clipboard, main_pc, main_ref, timer_pc,
          last_op,
          secrets_log, fn>>

(***************************************************************************)
(* Bounds of the model                                                     *)
(***************************************************************************)
NumRand == 2        \* distinct outcomes of each random draw (urandom, gensalt, iv)
MaxCreds == 1       \* rows the credentials table may ever receive

(***************************************************************************)
(* Program constants                                                       *)
(***************************************************************************)
ITERATIONS == 480000
SALT_LEN == 16
KEY_LEN == 32
BCRYPT_ROUNDS == 12
MIN_PASSWORD_LEN == 8
MIN_CLASSES == 3

(***************************************************************************)
(* Characters and str.encode() / bytes.decode() (ASCII range of UTF-8);     *)
(* the character of code 96 is written "grave"                             *)
(***************************************************************************)
Printable ==
    <<" ", "!", "\"", "#", "$", "%", "&", "'", "(", ")", "*", "+", ",", "-", ".", "/",
      "0", "1", "2", "3", "4", "5", "6", "7", "8", "9", ":", ";", "<", "=", ">", "?",
      "@", "A", "B", "C", "D", "E", "F", "G", "H", "I", "J", "K", "L", "M", "N", "O",
      "P", "Q", "R", "S", "T", "U", "V", "W", "X", "Y", "Z", "[", "\\", "]", "^", "_",
      "grave", "a", "b", "c", "d", "e", "f", "g", "h", "i", "j", "k", "l", "m", "n", "o",
      "p", "q", "r", "s", "t", "u", "v", "w", "x", "y", "z", "{", "|", "}", "~">>

OrdTable ==
    [c \in {Printable[i] : i \in 1..Len(Printable)}
        |-> 31 + (CHOOSE i \in 1..Len(Printable) : Printable[i] = c)]
Ord(c) == OrdTable[c]
Chr(n) == Printable[n - 31]

Encode(s) == [i \in 1..Len(s) |-> Ord(s[i])]
Decode(b) == [i \in 1..Len(b) |-> Chr(b[i])]

IsUpper(c) == Ord(c) \in 65..90
IsLower(c) == Ord(c) \in 97..122
IsDigit(c) == Ord(c) \in 48..57
SpecialChars ==
    {"!", "@", "#", "$", "%", "^", "&", "*", "(", ")", "_", "+", "-", "=", "[", "]",
     "{", "}", "|", ";", ":", ",", ".", "<", ">", "?"}
IsSpace(c) == c \in {" ", "\n"}

RECURSIVE Strip(_)
Strip(s) ==
    IF s = <<>> THEN s
    ELSE IF IsSpace(Head(s)) THEN Strip(Tail(s))
    ELSE IF IsSpace(s[Len(s)]) THEN Strip(SubSeq(s, 1, Len(s) - 1))
    ELSE s

Bool2Int(b) == IF b THEN 1 ELSE 0

(***************************************************************************)
(* CryptoManager.validate_password_strength                                *)
(***************************************************************************)
\* validate_password_strength whose length test is off by one ("<= 8")
validate_password_strength_off_by_one(password) ==
    IF Len(password) <= MIN_PASSWORD_LEN THEN FALSE
    ELSE
        LET has_upper == \E i \in 1..Len(password) : IsUpper(password[i])
            has_lower == \E i \in 1..Len(password) : IsLower(password[i])
            has_digit == \E i \in 1..Len(password) : IsDigit(password[i])
            has_special == \E i \in 1..Len(password) : password[i] \in SpecialChars
        IN  Bool2Int(has_upper) + Bool2Int(has_lower) + Bool2Int(has_digit)
                + Bool2Int(has_special) >= MIN_CLASSES

validate_password_strength(password) ==
    IF Len(password) < MIN_PASSWORD_LEN THEN FALSE
    ELSE
        LET has_upper == \E i \in 1..Len(password) : IsUpper(password[i])
            has_lower == \E i \in 1..Len(password) : IsLower(password[i])
            has_digit == \E i \in 1..Len(password) : IsDigit(password[i])
            has_special == \E i \in 1..Len(password) : password[i] \in SpecialChars
        IN  Bool2Int(has_upper) + Bool2Int(has_lower) + Bool2Int(has_digit)
                + Bool2Int(has_special) >= MIN_CLASSES

(***************************************************************************)
(* Result of a call: [raised |-> BOOLEAN, value |-> ...]                   *)
(***************************************************************************)
Ok(v) == [raised |-> FALSE, value |-> v]
Raised == [raised |-> TRUE, value |-> <<>>]

(***************************************************************************)
(* bcrypt: hash_master_password / verify_master_password                   *)
(*                                                                         *)
(* A hash string "$2b$12$<salt><digest>" is the record of its fields.      *)
(* bcrypt keys on at most 72 bytes of the password: builds of the bcrypt   *)
(* package before 5.0 drop the bytes beyond ("truncate"), later builds     *)
(* raise ValueError for them ("reject"). No file of the repository pins    *)
(* the version, so both builds are modelled.                               *)
(***************************************************************************)
BCRYPT_MAX_KEY == 72
BcryptBuilds == {"truncate", "reject"}
BcryptPrefixes == {"2a", "2b", "2x", "2y"}

BcryptKey(pw_bytes, build) ==
    IF Len(pw_bytes) <= BCRYPT_MAX_KEY THEN Ok(pw_bytes)
    ELSE IF build = "truncate" THEN Ok(SubSeq(pw_bytes, 1, BCRYPT_MAX_KEY))
    ELSE Raised

BcryptDigest(key, bsalt, rounds) == [pw |-> key, salt |-> bsalt, rounds |-> rounds]

\* bcrypt.hashpw(password, salt), the salt argument given by its fields:
\* ValueError (Raised) for an invalid salt, invalid rounds or a rejected key
hashpw(pw_bytes, prefix, rounds, bsalt, build) ==
    LET k == BcryptKey(pw_bytes, build)
    IN  IF prefix \notin BcryptPrefixes \/ rounds \notin 4..31 \/ k.raised
        THEN Raised
        ELSE Ok([prefix |-> prefix, rounds |-> rounds, salt |-> bsalt,
                 digest |-> BcryptDigest(k.value, bsalt, rounds)])

\* bcrypt.checkpw: hashpw on the salt embedded in the hash, then the comparison
checkpw(pw_bytes, h, build) ==
    LET r == hashpw(pw_bytes, h.prefix, h.rounds, h.salt, build)
    IN  IF r.raised THEN Raised ELSE Ok(r.value = h)

\* hash_master_password that returns the password unhashed, in a format of
\* its own ("plain", cost 0)
hash_master_password_unhashed(password, bsalt, build) ==
    Ok([prefix |-> "plain", rounds |-> 0, salt |-> bsalt,
        digest |-> BcryptDigest(Encode(password), bsalt, 0)])

\* CryptoManager.hash_master_password with gensalt draw bsalt: Ok(hash) or Raised
hash_master_password(password, bsalt, build) ==
    hashpw(Encode(password), "2b", BCRYPT_ROUNDS, bsalt, build)

\* verify_master_password without its try/except
verify_master_password_no_except(password, hashed, build) ==
    IF hashed = <<>> THEN Raised
    ELSE checkpw(Encode(password), hashed[1], build)

\* CryptoManager.verify_master_password: Ok(bool) (or Raised, which the
\* try/except turns into False). hashed is what get_master_password_hash
\* returned: <<>> (None, whose .encode() is the AttributeError) or <<hash>>.
verify_master_password(password, hashed, build) ==
    IF hashed = <<>> THEN Ok(FALSE)
    ELSE LET r == checkpw(Encode(password), hashed[1], build)
         IN  IF r.raised THEN Ok(FALSE) ELSE r

(***************************************************************************)
(* CryptoManager: salt, key derivation, Fernet                             *)
(***************************************************************************)
\* os.urandom(n) for random draw r
URandom(n, r) == [i \in 1..n |-> r]

PBKDF2(pw_bytes, salt, iterations, length) ==
    [pw |-> pw_bytes, salt |-> salt, iterations |-> iterations, length |-> length]

\* base64.urlsafe_b64encode / urlsafe_b64decode: the text form of raw bytes
urlsafe_b64encode(raw) == [b64 |-> raw]
urlsafe_b64decode(text) == text.b64

\* _derive_key that leaves the salt out of the derivation
_derive_key_without_salt(master_password, salt) ==
    urlsafe_b64encode(PBKDF2(Encode(master_password), <<>>, ITERATIONS, KEY_LEN))

\* CryptoManager._derive_key on self.master_password and self.salt
_derive_key(master_password, salt) ==
    urlsafe_b64encode(PBKDF2(Encode(master_password), salt, ITERATIONS, KEY_LEN))

\* Fernet(key): the key is base64-decoded; the first half of the raw key
\* signs, the second half encrypts
Fernet(key) ==
    LET raw == urlsafe_b64decode(key)
    IN  [signing_key |-> [key |-> raw, half |-> 1],
         encryption_key |-> [key |-> raw, half |-> 2]]

HMAC(k, data) == [k |-> k, data |-> data]
AESEncrypt(k, iv, data) == [k |-> k, iv |-> iv, data |-> data]

FernetEncrypt(f, data, iv) ==
    LET ct == AESEncrypt(f.encryption_key, iv, data)
    IN  [iv |-> iv, ciphertext |-> ct, hmac |-> HMAC(f.signing_key, <<iv, ct>>)]

\* AES-CBC decryption and PKCS7 unpadding. Under another key or iv the block
\* cipher yields unrelated bytes (Garbage) which the caller cannot tell apart.
Garbage == <<Ord("?")>>
AESDecrypt(k, iv, ct) ==
    IF ct.k = k /\ ct.iv = iv THEN ct.data ELSE Garbage

\* Fernet.decrypt that skips the HMAC comparison
FernetDecrypt_no_hmac(f, token) ==
    Ok(AESDecrypt(f.encryption_key, token.iv, token.ciphertext))

\* Fernet.decrypt: the HMAC is checked under the signing key, then AES
\* decrypts. InvalidToken is the raised result. (The token's version byte and
\* timestamp, which no caller here inspects, are left out of the token.)
FernetDecrypt(f, token) ==
    IF token.hmac # HMAC(f.signing_key, <<token.iv, token.ciphertext>>)
    THEN Raised
    ELSE Ok(AESDecrypt(f.encryption_key, token.iv, token.ciphertext))

\* CryptoManager.encrypt without its emptiness guard: "" is encrypted too
encrypt_without_guard(cm, plaintext, iv) ==
    <<FernetEncrypt(cm.fernet, Encode(plaintext), iv)>>

\* CryptoManager.encrypt: a str, "" for "" and otherwise the one-token string
encrypt(cm, plaintext, iv) ==
    IF plaintext = <<>> THEN <<>>
    ELSE <<FernetEncrypt(cm.fernet, Encode(plaintext), iv)>>

\* CryptoManager.decrypt whose emptiness guard is inverted ("if ciphertext:"):
\* "" for a token, and the empty token is rejected by Fernet
decrypt_inverted_guard(cm, ciphertext) ==
    IF ciphertext # <<>> THEN Ok(<<>>) ELSE Raised

\* CryptoManager.decrypt: Ok(str), or Raised for the ValueError
decrypt(cm, ciphertext) ==
    IF ciphertext = <<>> THEN Ok(<<>>)
    ELSE LET r == FernetDecrypt(cm.fernet, ciphertext[1])
         IN  IF r.raised THEN Raised ELSE Ok(Decode(r.value))

\* Outcomes of the file system for one access of salt.key
IoOutcomes == {"ok", "open_error", "write_error"}

\* _load_or_create_salt that never looks for an existing salt.key
_load_or_create_salt_always_new(file, r, io) ==
    LET salt == URandom(SALT_LEN, r)
    IN  CASE io = "open_error" -> [raised |-> TRUE, salt |-> <<>>, file |-> file]
          [] io = "write_error" -> [raised |-> TRUE, salt |-> <<>>, file |-> << <<>> >>]
          [] OTHER -> [raised |-> FALSE, salt |-> salt, file |-> <<salt>>]

\* _load_or_create_salt that returns a new salt without writing salt.key
_load_or_create_salt_not_written(file, r, io) ==
    IF file # <<>>
    THEN IF io = "open_error"
         THEN [raised |-> TRUE, salt |-> <<>>, file |-> file]
         ELSE [raised |-> FALSE, salt |-> file[1], file |-> file]
    ELSE [raised |-> FALSE, salt |-> URandom(SALT_LEN, r), file |-> <<>>]

\* CryptoManager._load_or_create_salt on file content `file`, with random draw r
\* and file-system outcome io: [raised, salt (what is returned), file (afterwards)].
\* A write that fails after open(..., 'wb') leaves the created file empty.
_load_or_create_salt(file, r, io) ==
    IF file # <<>>
    THEN IF io = "open_error"
         THEN [raised |-> TRUE, salt |-> <<>>, file |-> file]
         ELSE [raised |-> FALSE, salt |-> file[1], file |-> file]
    ELSE LET salt == URandom(SALT_LEN, r)
         IN  CASE io = "open_error" -> [raised |-> TRUE, salt |-> <<>>, file |-> <<>>]
               [] io = "write_error" -> [raised |-> TRUE, salt |-> <<>>, file |-> << <<>> >>]
               [] OTHER -> [raised |-> FALSE, salt |-> salt, file |-> <<salt>>]

\* CryptoManager.__init__ that derives the key from a salt drawn for this
\* instance instead of the one _load_or_create_salt returned
CryptoManager_own_salt(master_password, file, r, io) ==
    LET s == _load_or_create_salt(file, r, io)
    IN  IF s.raised
        THEN [raised |-> TRUE, cm |-> <<>>, file |-> s.file, derived |-> FALSE,
              salt |-> <<>>]
        ELSE LET key == _derive_key(master_password, URandom(SALT_LEN, r))
             IN  [raised |-> FALSE,
                  cm |-> <<[master_password |-> master_password, salt |-> s.salt,
                            key |-> key, fernet |-> Fernet(key)]>>,
                  file |-> s.file, derived |-> TRUE, salt |-> <<s.salt>>]

\* CryptoManager.__init__: [raised, cm (<<>> or <<instance>>), file, derived, salt]
CryptoManager(master_password, file, r, io) ==
    LET s == _load_or_create_salt(file, r, io)
    IN  IF s.raised
        THEN [raised |-> TRUE, cm |-> <<>>, file |-> s.file, derived |-> FALSE,
              salt |-> <<>>]
        ELSE LET key == _derive_key(master_password, s.salt)
             IN  [raised |-> FALSE,
                  cm |-> <<[master_password |-> master_password, salt |-> s.salt,
                            key |-> key, fernet |-> Fernet(key)]>>,
                  file |-> s.file, derived |-> TRUE, salt |-> <<s.salt>>]

(***************************************************************************)
(* Inputs                                                                  *)
(***************************************************************************)
PwStrong == <<"A", "b", "c", "d", "e", "f", "g", "1">>
PwOther == <<"A", "b", "c", "d", "e", "f", "g", "!">>
PwWeak == <<"a", "b", "c", "d", "e", "f", "g", "h">>
PwShort == <<"A", "b", "1", "!">>
MasterPasswords == {<<>>, PwShort, PwWeak, PwStrong, PwOther}

Rand == 1..NumRand
Secrets == {<<>>, <<"h", "u", "n", "t", "e", "r", "2">>, <<"s", "3">>}
Websites == {<<>>, <<" ", "w">>}
Usernames == {<<"u">>}
Urls == {<<>>}
Notes == {<<>>}

(***************************************************************************)
(* Observation of the last handler: its name where a property refers to    *)
(* it ("setup", "unlock", "lock", "auto_lock", "restart", "save",          *)
(* "copy_load", "copy_password"), "other" otherwise; after_rejected tells  *)
(* that the handler before it was an unlock attempt that was rejected      *)
(***************************************************************************)
Op(name) ==
    [op |-> name, verified |-> FALSE, derived |-> FALSE, raised |-> FALSE,
     salt |-> <<>>, while_locked |-> FALSE, after_rejected |-> FALSE]

\* the observed handler was an unlock attempt verify_master_password rejected
Rejected(op) == op.op = "unlock" /\ ~op.verified

NoFn == [a |-> <<>>, b |-> <<>>, pt |-> <<>>, tok |-> <<>>, res |-> <<>>]

(***************************************************************************)
(* Database                                                                *)
(***************************************************************************)
is_first_run == master_password_hash = <<>>

Row(id, website, username, encrypted_password, url, notes) ==
    [id |-> id, website |-> website, username |-> username,
     encrypted_password |-> encrypted_password, url |-> url, notes |-> notes]

add_credential(table, id, website, username, encrypted_password, url, notes) ==
    table \cup {Row(id, website, username, encrypted_password, url, notes)}

update_credential(table, id, website, username, encrypted_password, url, notes) ==
    {IF row.id = id
        THEN Row(id, website, username, encrypted_password, url, notes)
        ELSE row : row \in table}

delete_credential(table, id) == {row \in table : row.id # id}

(***************************************************************************)
(* threading.Timer                                                         *)
(***************************************************************************)
Cancel(timer) == IF timer = "pending" THEN "cancelled" ELSE timer

\* PasswordManagerGUI.reset_auto_lock: the value of self.auto_lock_timer afterwards
reset_auto_lock(timer, locked) == IF ~locked THEN "pending" ELSE Cancel(timer)

\* a Timer object that loses its last reference keeps waiting unless cancelled
Orphaned(timer) == IF timer = "pending" THEN 1 ELSE 0

NoOrphans == [auto_lock |-> 0, clipboard |-> 0]

\* reset_auto_lock: the Timer threads it leaves waiting without a reference
AutoLockOrphans(timer, locked) == IF ~locked THEN Orphaned(Cancel(timer)) ELSE 0

\* copy_password / copy_generated: the same for self.clipboard_timer
ClipboardOrphans(timer) == Orphaned(Cancel(timer))

(***************************************************************************)
(* State after PasswordManagerGUI.__init__ on a fresh installation         *)
(***************************************************************************)
InitSession ==
    /\ salt_file = <<>>
    /\ master_password_hash = <<>>
    /\ credentials = {}
    /\ next_id = 1
    /\ screen = "setup"
    /\ dialog = <<>>
    /\ crypto_manager = <<>>
    /\ is_locked = TRUE
    /\ auto_lock_timer = "None"
    /\ clipboard_timer = "None"
    /\ orphan_timers = NoOrphans
    /\ activity_bound = FALSE
    /\ clipboard = <<>>
    /\ main_pc = "idle"
    /\ main_ref = <<>>
    /\ timer_pc = "idle"
    /\ last_op = Op("init")
    /\ secrets_log = {}

Init == InitSession /\ fn = NoFn

Earlier(log) == {[e EXCEPT !.earlier = TRUE] : e \in log}

(***************************************************************************)
(* Setup screen: create_master_password                                    *)
(***************************************************************************)
create_master_password(password, confirm, bsalt, r, io, build) ==
    /\ screen = "setup"
    /\ main_pc = "idle"
    /\ IF password = <<>> \/ password # confirm \/ ~validate_password_strength(password)
       THEN /\ last_op' = Op("other")
            /\ UNCHANGED <<master_password_hash, salt_file, crypto_manager, is_locked,
                           screen, dialog, auto_lock_timer, orphan_timers,
                                    activity_bound>>
       ELSE IF hash_master_password(password, bsalt, build).raised
       THEN /\ last_op' = [Op("setup") EXCEPT !.raised = TRUE]
            /\ UNCHANGED <<master_password_hash, salt_file, crypto_manager, is_locked,
                           screen, dialog, auto_lock_timer, orphan_timers,
                                    activity_bound>>
       ELSE LET c == CryptoManager(password, salt_file, r, io)
            IN  /\ master_password_hash'
                        = <<hash_master_password(password, bsalt, build).value>>
                /\ salt_file' = c.file
                /\ last_op' = [Op("setup") EXCEPT !.derived = c.derived,
                                                  !.raised = c.raised, !.salt = c.salt]
                /\ IF c.raised
                   THEN UNCHANGED <<crypto_manager, is_locked, screen, dialog,
                                    auto_lock_timer, orphan_timers,
                                    activity_bound>>
                   ELSE /\ crypto_manager' = c.cm
                        /\ is_locked' = FALSE
                        /\ screen' = "dashboard"
                        /\ dialog' = <<>>
                        /\ auto_lock_timer' = reset_auto_lock(auto_lock_timer, FALSE)
                        /\ orphan_timers' = [orphan_timers EXCEPT
                                !.auto_lock = @ + AutoLockOrphans(auto_lock_timer, FALSE)]
                        /\ activity_bound' = TRUE
    /\ UNCHANGED <<credentials, next_id, clipboard_timer, clipboard, main_pc, main_ref,
                   timer_pc, secrets_log, fn>>

\* unlock_vault that builds the CryptoManager before it checks the password
unlock_vault_derive_first(password, r, io, build) ==
    /\ screen = "login"
    /\ main_pc = "idle"
    /\ IF password = <<>>
       THEN /\ last_op' = Op("other")
            /\ UNCHANGED <<salt_file, crypto_manager, is_locked, screen, dialog,
                           auto_lock_timer, orphan_timers,
                                    activity_bound>>
       ELSE LET c == CryptoManager(password, salt_file, r, io)
                ok == verify_master_password(password, master_password_hash,
                                             build).value
            IN  /\ salt_file' = c.file
                /\ last_op' = [Op("unlock") EXCEPT !.verified = ok,
                                                   !.derived = c.derived,
                                                   !.raised = c.raised, !.salt = c.salt]
                /\ IF c.raised \/ ~ok
                   THEN UNCHANGED <<crypto_manager, is_locked, screen, dialog,
                                    auto_lock_timer, orphan_timers,
                                    activity_bound>>
                   ELSE /\ crypto_manager' = c.cm
                        /\ is_locked' = FALSE
                        /\ screen' = "dashboard"
                        /\ dialog' = <<>>
                        /\ auto_lock_timer' = reset_auto_lock(auto_lock_timer, FALSE)
                        /\ orphan_timers' = [orphan_timers EXCEPT
                                !.auto_lock = @ + AutoLockOrphans(auto_lock_timer, FALSE)]
                        /\ activity_bound' = TRUE
    /\ UNCHANGED <<master_password_hash, credentials, next_id, clipboard_timer,
                   clipboard, main_pc, main_ref, timer_pc, secrets_log, fn>>

\* unlock_vault that applies validate_password_strength to the entered password
unlock_vault_strength_policy(password, r, io, build) ==
    /\ screen = "login"
    /\ main_pc = "idle"
    /\ IF password = <<>> \/ ~validate_password_strength(password)
       THEN /\ last_op' = Op("other")
            /\ UNCHANGED <<salt_file, crypto_manager, is_locked, screen, dialog,
                           auto_lock_timer, orphan_timers,
                                    activity_bound>>
       ELSE IF ~verify_master_password(password, master_password_hash, build).value
       THEN /\ last_op' = Op("unlock")
            /\ UNCHANGED <<salt_file, crypto_manager, is_locked, screen, dialog,
                           auto_lock_timer, orphan_timers,
                                    activity_bound>>
       ELSE LET c == CryptoManager(password, salt_file, r, io)
            IN  /\ salt_file' = c.file
                /\ last_op' = [Op("unlock") EXCEPT !.verified = TRUE,
                                                   !.derived = c.derived,
                                                   !.raised = c.raised, !.salt = c.salt,
                                                   !.after_rejected = Rejected(last_op)]
                /\ IF c.raised
                   THEN UNCHANGED <<crypto_manager, is_locked, screen, dialog,
                                    auto_lock_timer, orphan_timers,
                                    activity_bound>>
                   ELSE /\ crypto_manager' = c.cm
                        /\ is_locked' = FALSE
                        /\ screen' = "dashboard"
                        /\ dialog' = <<>>
                        /\ auto_lock_timer' = reset_auto_lock(auto_lock_timer, FALSE)
                        /\ orphan_timers' = [orphan_timers EXCEPT
                                !.auto_lock = @ + AutoLockOrphans(auto_lock_timer, FALSE)]
                        /\ activity_bound' = TRUE
    /\ UNCHANGED <<master_password_hash, credentials, next_id, clipboard_timer,
                   clipboard, main_pc, main_ref, timer_pc, secrets_log, fn>>

\* unlock_vault that refuses every attempt made right after a rejected one
unlock_vault_lockout(password, r, io, build) ==
    /\ screen = "login"
    /\ main_pc = "idle"
    /\ IF password = <<>>
       THEN /\ last_op' = Op("other")
            /\ UNCHANGED <<salt_file, crypto_manager, is_locked, screen, dialog,
                           auto_lock_timer, orphan_timers,
                                    activity_bound>>
       ELSE IF \/ Rejected(last_op)
               \/ ~verify_master_password(password, master_password_hash, build).value
       THEN /\ last_op' = Op("unlock")
            /\ UNCHANGED <<salt_file, crypto_manager, is_locked, screen, dialog,
                           auto_lock_timer, orphan_timers,
                                    activity_bound>>
       ELSE LET c == CryptoManager(password, salt_file, r, io)
            IN  /\ salt_file' = c.file
                /\ last_op' = [Op("unlock") EXCEPT !.verified = TRUE,
                                                   !.derived = c.derived,
                                                   !.raised = c.raised, !.salt = c.salt,
                                                   !.after_rejected = Rejected(last_op)]
                /\ IF c.raised
                   THEN UNCHANGED <<crypto_manager, is_locked, screen, dialog,
                                    auto_lock_timer, orphan_timers,
                                    activity_bound>>
                   ELSE /\ crypto_manager' = c.cm
                        /\ is_locked' = FALSE
                        /\ screen' = "dashboard"
                        /\ dialog' = <<>>
                        /\ auto_lock_timer' = reset_auto_lock(auto_lock_timer, FALSE)
                        /\ orphan_timers' = [orphan_timers EXCEPT
                                !.auto_lock = @ + AutoLockOrphans(auto_lock_timer, FALSE)]
                        /\ activity_bound' = TRUE
    /\ UNCHANGED <<master_password_hash, credentials, next_id, clipboard_timer,
                   clipboard, main_pc, main_ref, timer_pc, secrets_log, fn>>

(***************************************************************************)
(* Login screen: unlock_vault                                              *)
(***************************************************************************)
unlock_vault(password, r, io, build) ==
    /\ screen = "login"
    /\ main_pc = "idle"
    /\ IF password = <<>>
       THEN /\ last_op' = Op("other")
            /\ UNCHANGED <<salt_file, crypto_manager, is_locked, screen, dialog,
                           auto_lock_timer, orphan_timers,
                                    activity_bound>>
       ELSE IF ~verify_master_password(password, master_password_hash, build).value
       THEN /\ last_op' = Op("unlock")
            /\ UNCHANGED <<salt_file, crypto_manager, is_locked, screen, dialog,
                           auto_lock_timer, orphan_timers,
                                    activity_bound>>
       ELSE LET c == CryptoManager(password, salt_file, r, io)
            IN  /\ salt_file' = c.file
                /\ last_op' = [Op("unlock") EXCEPT !.verified = TRUE,
                                                   !.derived = c.derived,
                                                   !.raised = c.raised, !.salt = c.salt,
                                                   !.after_rejected = Rejected(last_op)]
                /\ IF c.raised
                   THEN UNCHANGED <<crypto_manager, is_locked, screen, dialog,
                                    auto_lock_timer, orphan_timers,
                                    activity_bound>>
                   ELSE /\ crypto_manager' = c.cm
                        /\ is_locked' = FALSE
                        /\ screen' = "dashboard"
                        /\ dialog' = <<>>
                        /\ auto_lock_timer' = reset_auto_lock(auto_lock_timer, FALSE)
                        /\ orphan_timers' = [orphan_timers EXCEPT
                                !.auto_lock = @ + AutoLockOrphans(auto_lock_timer, FALSE)]
                        /\ activity_bound' = TRUE
    /\ UNCHANGED <<master_password_hash, credentials, next_id, clipboard_timer,
                   clipboard, main_pc, main_ref, timer_pc, secrets_log, fn>>

\* lock_vault that sets is_locked but keeps the CryptoManager
lock_vault_keeps_cipher(timer_now) ==
    /\ is_locked' = TRUE
    /\ auto_lock_timer' = Cancel(timer_now)
    /\ clipboard_timer' = Cancel(clipboard_timer)
    /\ clipboard' = <<>>
    /\ screen' = "login"
    /\ dialog' = <<>>
    /\ secrets_log' = Earlier(secrets_log)
    /\ UNCHANGED <<orphan_timers, salt_file, master_password_hash, credentials, next_id,
                   crypto_manager, activity_bound, main_pc, main_ref, timer_pc, fn>>

(***************************************************************************)
(* lock_vault, run with the auto-lock timer in status timer_now            *)
(***************************************************************************)
lock_vault(timer_now) ==
    /\ is_locked' = TRUE
    /\ crypto_manager' = <<>>
    /\ auto_lock_timer' = Cancel(timer_now)
    /\ clipboard_timer' = Cancel(clipboard_timer)
    /\ clipboard' = <<>>
    /\ screen' = "login"
    /\ dialog' = <<>>
    /\ secrets_log' = Earlier(secrets_log)
    /\ UNCHANGED <<orphan_timers, salt_file, master_password_hash, credentials, next_id,
                   activity_bound, main_pc, main_ref, timer_pc, fn>>

\* the "Lock Vault" button of the dashboard header
LockButton ==
    /\ screen = "dashboard"
    /\ dialog = <<>>
    /\ main_pc = "idle"
    /\ lock_vault(auto_lock_timer)
    /\ last_op' = Op("lock")

\* the auto-lock threading.Timer expires and runs lock_vault
AutoLockFire ==
    /\ auto_lock_timer = "pending"
    /\ main_pc = "idle"
    /\ timer_pc = "idle"
    /\ lock_vault("fired")
    /\ last_op' = Op("auto_lock")

\* <Motion> / <Key> on the root window: reset_auto_lock
Activity ==
    /\ activity_bound
    /\ main_pc = "idle"
    /\ auto_lock_timer' = reset_auto_lock(auto_lock_timer, is_locked)
    /\ orphan_timers' = [orphan_timers EXCEPT
            !.auto_lock = @ + AutoLockOrphans(auto_lock_timer, is_locked)]
    /\ last_op' = Op("other")
    /\ UNCHANGED <<salt_file, master_password_hash, credentials, next_id, screen,
                   dialog, crypto_manager, is_locked, clipboard_timer, activity_bound,
                   clipboard, main_pc, main_ref, timer_pc, secrets_log, fn>>

\* the clipboard threading.Timer expires: pyperclip.copy("")
ClipboardTimerFire ==
    /\ clipboard_timer = "pending"
    /\ clipboard_timer' = "fired"
    /\ clipboard' = <<>>
    /\ last_op' = Op("other")
    /\ UNCHANGED <<orphan_timers, salt_file, master_password_hash, credentials, next_id, screen,
                   dialog, crypto_manager, is_locked, auto_lock_timer, activity_bound,
                   main_pc, main_ref, timer_pc, secrets_log, fn>>

\* the process exits and is started again: __init__ on the files left behind
Restart ==
    /\ main_pc = "idle"
    /\ timer_pc' = "idle"
    /\ screen' = IF is_first_run THEN "setup" ELSE "login"
    /\ dialog' = <<>>
    /\ crypto_manager' = <<>>
    /\ is_locked' = TRUE
    /\ auto_lock_timer' = "None"
    /\ clipboard_timer' = "None"
    /\ orphan_timers' = NoOrphans
    /\ activity_bound' = FALSE
    /\ last_op' = Op("restart")
    /\ secrets_log' = Earlier(secrets_log)
    /\ UNCHANGED <<salt_file, master_password_hash, credentials, next_id, clipboard,
                   main_pc, main_ref, fn>>

(***************************************************************************)
(* Dashboard: credential cards and the add/edit dialog                     *)
(***************************************************************************)
\* self.crypto_manager.decrypt(x): AttributeError (Raised) when it is None
SessionDecrypt(cm, ciphertext) ==
    IF cm = <<>> THEN Raised ELSE decrypt(cm[1], ciphertext)

\* "+ Add New" (credential = <<>>) or a card's "Edit" (credential = <<row>>)
show_add_edit_dialog(credential) ==
    /\ screen = "dashboard"
    /\ dialog = <<>>
    /\ main_pc = "idle"
    /\ credential # <<>> => credential[1] \in credentials
    /\ LET prefill == IF credential = <<>> THEN Ok(<<>>)
                      ELSE SessionDecrypt(crypto_manager, credential[1].encrypted_password)
       IN  /\ dialog' = IF prefill.raised THEN <<>> ELSE <<[credential |-> credential]>>
           /\ last_op' = [Op("other") EXCEPT !.raised = prefill.raised]
    /\ UNCHANGED <<orphan_timers, salt_file, master_password_hash, credentials, next_id, screen,
                   crypto_manager, is_locked, auto_lock_timer, clipboard_timer,
                   activity_bound, clipboard, main_pc, main_ref, timer_pc,
                   secrets_log, fn>>

LogEntry(id, password, cm) ==
    [id |-> id, plaintext |-> password, master_password |-> cm.master_password,
     earlier |-> FALSE]

\* what save_credential writes once it holds the encrypted password
StoreCredential(credential, website, username, encrypted_pass, url, notes, password, cm) ==
    IF credential # <<>>
    THEN LET id == credential[1].id
         IN  /\ credentials' = update_credential(credentials, id, website, username,
                                                 encrypted_pass, url, notes)
             /\ secrets_log' = IF \E row \in credentials : row.id = id
                               THEN {e \in secrets_log : e.id # id}
                                        \cup {LogEntry(id, password, cm)}
                               ELSE secrets_log
             /\ UNCHANGED next_id
    ELSE /\ credentials' = add_credential(credentials, next_id, website, username,
                                          encrypted_pass, url, notes)
         /\ secrets_log' = secrets_log \cup {LogEntry(next_id, password, cm)}
         /\ next_id' = next_id + 1

\* save_credential without the required-fields check of lines 455-457
save_credential_unchecked(website_in, username_in, password, url_in, notes_in, iv) ==
    /\ dialog # <<>>
    /\ main_pc = "idle"
    /\ dialog[1].credential = <<>> => next_id <= MaxCreds
    /\ LET website == Strip(website_in)
           username == Strip(username_in)
           url == Strip(url_in)
           notes == Strip(notes_in)
       IN  IF crypto_manager = <<>>
           THEN /\ last_op' = [Op("save") EXCEPT !.raised = TRUE]
                /\ UNCHANGED <<credentials, next_id, dialog, secrets_log>>
           ELSE /\ StoreCredential(dialog[1].credential, website, username,
                                   encrypt(crypto_manager[1], password, iv),
                                   url, notes, password, crypto_manager[1])
                /\ dialog' = <<>>
                /\ last_op' = [Op("save") EXCEPT !.while_locked = is_locked]
    /\ UNCHANGED <<orphan_timers, salt_file, master_password_hash, screen, crypto_manager, is_locked,
                   auto_lock_timer, clipboard_timer, activity_bound, clipboard,
                   main_pc, main_ref, timer_pc, fn>>

\* the dialog's "Save" button
save_credential(website_in, username_in, password, url_in, notes_in, iv) ==
    /\ dialog # <<>>
    /\ main_pc = "idle"
    /\ dialog[1].credential = <<>> => next_id <= MaxCreds
    /\ LET website == Strip(website_in)
           username == Strip(username_in)
           url == Strip(url_in)
           notes == Strip(notes_in)
       IN  IF website = <<>> \/ username = <<>> \/ password = <<>>
           THEN /\ last_op' = Op("other")
                /\ UNCHANGED <<credentials, next_id, dialog, secrets_log>>
           ELSE IF crypto_manager = <<>>
           THEN /\ last_op' = [Op("save") EXCEPT !.raised = TRUE]
                /\ UNCHANGED <<credentials, next_id, dialog, secrets_log>>
           ELSE /\ StoreCredential(dialog[1].credential, website, username,
                                   encrypt(crypto_manager[1], password, iv),
                                   url, notes, password, crypto_manager[1])
                /\ dialog' = <<>>
                /\ last_op' = [Op("save") EXCEPT !.while_locked = is_locked]
    /\ UNCHANGED <<orphan_timers, salt_file, master_password_hash, screen, crypto_manager, is_locked,
                   auto_lock_timer, clipboard_timer, activity_bound, clipboard,
                   main_pc, main_ref, timer_pc, fn>>

\* the dialog's "Cancel" button
CancelDialog ==
    /\ dialog # <<>>
    /\ main_pc = "idle"
    /\ dialog' = <<>>
    /\ last_op' = Op("other")
    /\ UNCHANGED <<orphan_timers, salt_file, master_password_hash, credentials, next_id, screen,
                   crypto_manager, is_locked, auto_lock_timer, clipboard_timer,
                   activity_bound, clipboard, main_pc, main_ref, timer_pc,
                   secrets_log, fn>>

\* a card's "Delete" button, confirmed
delete_credential_card(id) ==
    /\ screen = "dashboard"
    /\ dialog = <<>>
    /\ main_pc = "idle"
    /\ \E row \in credentials : row.id = id
    /\ credentials' = delete_credential(credentials, id)
    /\ secrets_log' = {e \in secrets_log : e.id # id}
    /\ last_op' = Op("other")
    /\ UNCHANGED <<orphan_timers, salt_file, master_password_hash, next_id, screen, dialog,
                   crypto_manager, is_locked, auto_lock_timer, clipboard_timer,
                   activity_bound, clipboard, main_pc, main_ref, timer_pc, fn>>

\* a card's "Copy User" button
copy_username(row) ==
    /\ screen = "dashboard"
    /\ dialog = <<>>
    /\ main_pc = "idle"
    /\ row \in credentials
    /\ clipboard' = row.username
    /\ last_op' = Op("other")
    /\ UNCHANGED <<orphan_timers, salt_file, master_password_hash, credentials, next_id, screen,
                   dialog, crypto_manager, is_locked, auto_lock_timer, clipboard_timer,
                   activity_bound, main_pc, main_ref, timer_pc, secrets_log, fn>>

\* a card's "Copy Password" button
copy_password(row) ==
    /\ screen = "dashboard"
    /\ dialog = <<>>
    /\ main_pc = "idle"
    /\ row \in credentials
    /\ LET decrypted == SessionDecrypt(crypto_manager, row.encrypted_password)
       IN  IF decrypted.raised
           THEN /\ last_op' = [Op("copy_password") EXCEPT !.raised = TRUE]
                /\ UNCHANGED <<clipboard, clipboard_timer, orphan_timers>>
           ELSE /\ clipboard' = decrypted.value
                /\ clipboard_timer' = "pending"
                /\ orphan_timers' = [orphan_timers EXCEPT
                        !.clipboard = @ + ClipboardOrphans(clipboard_timer)]
                /\ last_op' = [Op("copy_password") EXCEPT !.while_locked = is_locked]
    /\ UNCHANGED <<salt_file, master_password_hash, credentials, next_id, screen,
                   dialog, crypto_manager, is_locked, auto_lock_timer, activity_bound,
                   main_pc, main_ref, timer_pc, secrets_log, fn>>

(***************************************************************************)
(* The session, every handler run to completion (Tk main loop)             *)
(***************************************************************************)
\* os.urandom and f.write run only when salt.key is absent: with the file
\* present there is one draw to make and no write that can fail
SaltDraws == IF salt_file = <<>> THEN Rand ELSE {1}
SaltIo == IF salt_file = <<>> THEN IoOutcomes ELSE IoOutcomes \ {"write_error"}

Next ==
    \/ \E password \in MasterPasswords, confirm \in MasterPasswords,
          bsalt \in Rand, r \in SaltDraws, io \in SaltIo, build \in BcryptBuilds :
            create_master_password(password, confirm, bsalt, r, io, build)
    \/ \E password \in MasterPasswords, r \in SaltDraws, io \in SaltIo,
          build \in BcryptBuilds :
            unlock_vault(password, r, io, build)
    \/ LockButton
    \/ AutoLockFire
    \/ Activity
    \/ ClipboardTimerFire
    \/ Restart
    \/ \E credential \in {<<>>} \cup {<<row>> : row \in credentials} :
            show_add_edit_dialog(credential)
    \/ \E website \in Websites, username \in Usernames, password \in Secrets,
          url \in Urls, notes \in Notes, iv \in Rand :
            save_credential(website, username, password, url, notes, iv)
    \/ CancelDialog
    \/ \E row \in credentials : delete_credential_card(row.id)
    \/ \E row \in credentials : copy_username(row)
    \/ \E row \in credentials : copy_password(row)

Spec == Init /\ [][Next]_vars

(***************************************************************************)
(* The session with the file system outside the program's control:         *)
(* salt.key removed (deleted, or vault.db restored without it)             *)
(***************************************************************************)
SaltFileLost ==
    /\ salt_file # <<>>
    /\ salt_file' = <<>>
    /\ last_op' = Op("other")
    /\ UNCHANGED <<orphan_timers, master_password_hash, credentials, next_id, screen, dialog,
                   crypto_manager, is_locked, auto_lock_timer, clipboard_timer,
                   activity_bound, clipboard, main_pc, main_ref, timer_pc,
                   secrets_log, fn>>

NextEnv == Next \/ SaltFileLost

SpecEnv == Init /\ [][NextEnv]_vars

(***************************************************************************)
(* The session with lock_vault on the auto-lock timer thread interleaved   *)
(* with the main thread's copy_password and save_credential                *)
(***************************************************************************)
\* Timer.run: the interval has passed, the timer was not cancelled
TimerStart ==
    /\ auto_lock_timer = "pending"
    /\ timer_pc = "idle"
    /\ auto_lock_timer' = "fired"
    /\ timer_pc' = "lock_593"
    /\ last_op' = Op("auto_lock")
    /\ UNCHANGED <<orphan_timers, salt_file, master_password_hash, credentials, next_id, screen,
                   dialog, crypto_manager, is_locked, clipboard_timer, activity_bound,
                   clipboard, main_pc, main_ref, secrets_log, fn>>

\* lock_vault line 593: self.is_locked = True
TimerLock593 ==
    /\ timer_pc = "lock_593"
    /\ is_locked' = TRUE
    /\ timer_pc' = "lock_594"
    /\ UNCHANGED <<orphan_timers, salt_file, master_password_hash, credentials, next_id, screen,
                   dialog, crypto_manager, auto_lock_timer, clipboard_timer,
                   activity_bound, clipboard, main_pc, main_ref, last_op,
                   secrets_log, fn>>

\* lock_vault line 594: self.crypto_manager = None
TimerLock594 ==
    /\ timer_pc = "lock_594"
    /\ crypto_manager' = <<>>
    /\ timer_pc' = "lock_597"
    /\ UNCHANGED <<orphan_timers, salt_file, master_password_hash, credentials, next_id, screen,
                   dialog, is_locked, auto_lock_timer, clipboard_timer,
                   activity_bound, clipboard, main_pc, main_ref, last_op,
                   secrets_log, fn>>

\* lock_vault lines 597-605: cancel timers, clear clipboard, show_login_screen
TimerLock597 ==
    /\ timer_pc = "lock_597"
    /\ auto_lock_timer' = Cancel(auto_lock_timer)
    /\ clipboard_timer' = Cancel(clipboard_timer)
    /\ clipboard' = <<>>
    /\ screen' = "login"
    /\ dialog' = <<>>
    /\ secrets_log' = Earlier(secrets_log)
    /\ timer_pc' = "idle"
    /\ UNCHANGED <<orphan_timers, salt_file, master_password_hash, credentials, next_id,
                   crypto_manager, is_locked, activity_bound, main_pc, main_ref,
                   last_op, fn>>

\* copy_password line 350, first half: self.crypto_manager is read
CopyLoad(row) ==
    /\ screen = "dashboard"
    /\ dialog = <<>>
    /\ main_pc = "idle"
    /\ row \in credentials
    /\ IF crypto_manager = <<>>
       THEN /\ last_op' = [Op("copy_password") EXCEPT !.raised = TRUE]
            /\ UNCHANGED <<main_pc, main_ref>>
       ELSE /\ main_ref' = <<[cm |-> crypto_manager[1], row |-> row, value |-> <<>>]>>
            /\ main_pc' = "copy_350"
            /\ last_op' = [Op("copy_load") EXCEPT !.while_locked = is_locked]
    /\ UNCHANGED <<orphan_timers, salt_file, master_password_hash, credentials, next_id, screen,
                   dialog, crypto_manager, is_locked, auto_lock_timer, clipboard_timer,
                   activity_bound, clipboard, timer_pc, secrets_log, fn>>

\* copy_password line 350, second half: decrypt runs on the reference read
CopyDecrypt ==
    /\ main_pc = "copy_350"
    /\ LET decrypted == decrypt(main_ref[1].cm, main_ref[1].row.encrypted_password)
       IN  IF decrypted.raised
           THEN /\ last_op' = [Op("copy_password") EXCEPT !.raised = TRUE]
                /\ main_pc' = "idle"
                /\ main_ref' = <<>>
           ELSE /\ last_op' = [Op("copy_password") EXCEPT !.while_locked = is_locked]
                /\ main_pc' = "copy_351"
                /\ main_ref' = <<[main_ref[1] EXCEPT !.value = decrypted.value]>>
    /\ UNCHANGED <<orphan_timers, salt_file, master_password_hash, credentials, next_id, screen,
                   dialog, crypto_manager, is_locked, auto_lock_timer, clipboard_timer,
                   activity_bound, clipboard, timer_pc, secrets_log, fn>>

\* copy_password lines 351-361: clipboard and clipboard timer
CopyFinish ==
    /\ main_pc = "copy_351"
    /\ clipboard' = main_ref[1].value
    /\ clipboard_timer' = "pending"
    /\ orphan_timers' = [orphan_timers EXCEPT
            !.clipboard = @ + ClipboardOrphans(clipboard_timer)]
    /\ main_pc' = "idle"
    /\ main_ref' = <<>>
    /\ UNCHANGED <<salt_file, master_password_hash, credentials, next_id, screen,
                   dialog, crypto_manager, is_locked, auto_lock_timer, activity_bound,
                   timer_pc, last_op, secrets_log, fn>>

NextConc ==
    \/ \E password \in MasterPasswords, confirm \in MasterPasswords,
          bsalt \in Rand, r \in SaltDraws, io \in SaltIo, build \in BcryptBuilds :
            create_master_password(password, confirm, bsalt, r, io, build)
    \/ \E password \in MasterPasswords, r \in SaltDraws, io \in SaltIo,
          build \in BcryptBuilds :
            unlock_vault(password, r, io, build)
    \/ LockButton
    \/ Activity
    \/ ClipboardTimerFire
    \/ Restart
    \/ \E credential \in {<<>>} \cup {<<row>> : row \in credentials} :
            show_add_edit_dialog(credential)
    \/ \E website \in Websites, username \in Usernames, password \in Secrets,
          url \in Urls, notes \in Notes, iv \in Rand :
            save_credential(website, username, password, url, notes, iv)
    \/ CancelDialog
    \/ \E row \in credentials : delete_credential_card(row.id)
    \/ \E row \in credentials : copy_username(row)
    \/ TimerStart
    \/ TimerLock593
    \/ TimerLock594
    \/ TimerLock597
    \/ \E row \in credentials : CopyLoad(row)
    \/ CopyDecrypt
    \/ CopyFinish

SpecConc == Init /\ [][NextConc]_vars

(***************************************************************************)
(* Setup, unlock and lock on a fresh installation or on vault files left   *)
(* by an earlier installation, whose Master Password no policy of this     *)
(* version has checked                                                     *)
(***************************************************************************)
InitLegacy ==
    \/ Init
    \/ /\ \E password \in MasterPasswords :
            master_password_hash
                = <<hash_master_password(password, 1, "truncate").value>>
       /\ salt_file = <<URandom(SALT_LEN, 1)>>
       /\ credentials = {}
       /\ next_id = 1
       /\ screen = "login"
       /\ dialog = <<>>
       /\ crypto_manager = <<>>
       /\ is_locked = TRUE
       /\ auto_lock_timer = "None"
       /\ clipboard_timer = "None"
       /\ orphan_timers = NoOrphans
       /\ activity_bound = FALSE
       /\ clipboard = <<>>
       /\ main_pc = "idle"
       /\ main_ref = <<>>
       /\ timer_pc = "idle"
       /\ last_op = Op("init")
       /\ secrets_log = {}
       /\ fn = NoFn

NextLegacy ==
    \/ \E password \in MasterPasswords, confirm \in MasterPasswords,
          bsalt \in Rand, r \in SaltDraws, io \in SaltIo, build \in BcryptBuilds :
            create_master_password(password, confirm, bsalt, r, io, build)
    \/ \E password \in MasterPasswords, r \in SaltDraws, io \in SaltIo,
          build \in BcryptBuilds :
            unlock_vault(password, r, io, build)
    \/ LockButton
    \/ AutoLockFire
    \/ Activity
    \/ Restart

SpecLegacy == InitLegacy /\ [][NextLegacy]_vars

(***************************************************************************)
(* The cipher alone: two CryptoManager instances a and b, a plaintext,     *)
(* one encrypt and one decrypt                                             *)
(***************************************************************************)
CipherPasswords == {PwStrong, PwOther}
CipherSalts == {URandom(SALT_LEN, r) : r \in Rand}
Instance(master_password, salt) == CryptoManager(master_password, <<salt>>, 1, "ok").cm

InitCipher ==
    /\ InitSession
    /\ \E pa \in CipherPasswords, pb \in CipherPasswords,
          sa \in CipherSalts, sb \in CipherSalts, pt \in Secrets :
            fn = [a |-> Instance(pa, sa), b |-> Instance(pb, sb), pt |-> pt,
                  tok |-> <<>>, res |-> <<>>]

CipherEncrypt(who, iv) ==
    /\ fn.tok = <<>>
    /\ fn' = [fn EXCEPT !.tok = <<[by |-> who, ct |-> encrypt(fn[who][1], fn.pt, iv)]>>]
    /\ UNCHANGED <<orphan_timers, salt_file, master_password_hash, credentials, next_id, screen,
                   dialog, crypto_manager, is_locked, auto_lock_timer, clipboard_timer,
                   activity_bound, clipboard, main_pc, main_ref, timer_pc, last_op,
                   secrets_log>>

CipherDecrypt(who) ==
    /\ fn.tok # <<>>
    /\ fn.res = <<>>
    /\ fn' = [fn EXCEPT !.res = <<[by |-> who, out |-> decrypt(fn[who][1], fn.tok[1].ct)]>>]
    /\ UNCHANGED <<orphan_timers, salt_file, master_password_hash, credentials, next_id, screen,
                   dialog, crypto_manager, is_locked, auto_lock_timer, clipboard_timer,
                   activity_bound, clipboard, main_pc, main_ref, timer_pc, last_op,
                   secrets_log>>

NextCipher ==
    \/ \E who \in {"a", "b"}, iv \in Rand : CipherEncrypt(who, iv)
    \/ \E who \in {"a", "b"} : CipherDecrypt(who)

SpecCipher == InitCipher /\ [][NextCipher]_vars

(***************************************************************************)
(* Key derivation alone: two CryptoManager constructions, each on a        *)
(* password and the content of salt.key                                    *)
(***************************************************************************)
KdfPasswords == {PwShort, PwStrong, PwOther}
KdfSalts == CipherSalts \cup {<<>>}

InitKdf ==
    /\ InitSession
    /\ \E p1 \in KdfPasswords, p2 \in KdfPasswords, s1 \in KdfSalts, s2 \in KdfSalts :
            fn = [pw1 |-> p1, salt1 |-> s1, pw2 |-> p2, salt2 |-> s2,
                  k1 |-> <<>>, k2 |-> <<>>]

\* CryptoManager(pw) on salt.key = salt: self.key, as _derive_key returned it
DeriveKey(which, pw, salt) ==
    /\ fn[which] = <<>>
    /\ fn' = [fn EXCEPT ![which] = <<Instance(pw, salt)[1].key>>]
    /\ UNCHANGED <<orphan_timers, salt_file, master_password_hash, credentials, next_id, screen,
                   dialog, crypto_manager, is_locked, auto_lock_timer, clipboard_timer,
                   activity_bound, clipboard, main_pc, main_ref, timer_pc, last_op,
                   secrets_log>>

NextKdf ==
    \/ DeriveKey("k1", fn.pw1, fn.salt1)
    \/ DeriveKey("k2", fn.pw2, fn.salt2)

SpecKdf == InitKdf /\ [][NextKdf]_vars

(***************************************************************************)
(* validate_password_strength alone, on passwords around both thresholds   *)
(***************************************************************************)
\* one character of each class, one outside every class
StrengthKinds == <<"A", "b", "1", "!", "~">>
StrengthLengths == {0, 7, 8, 9}

\* the characters of `kinds`, cut or padded with the first one to length n
Pad(kinds, n) == [i \in 1..n |-> IF i <= Len(kinds) THEN kinds[i] ELSE kinds[1]]

StrengthPasswords ==
    {PwShort, PwWeak, PwStrong, PwOther}
        \cup {Pad(SelectSeq(StrengthKinds, LAMBDA c : c \in chosen), n) :
                    chosen \in (SUBSET {StrengthKinds[i] : i \in 1..Len(StrengthKinds)})
                                    \ {{}},
                    n \in StrengthLengths}

InitStrength ==
    /\ InitSession
    /\ \E password \in StrengthPasswords : fn = [password |-> password, out |-> <<>>]

Validate ==
    /\ fn.out = <<>>
    /\ fn' = [fn EXCEPT !.out = <<validate_password_strength(fn.password)>>]
    /\ UNCHANGED <<orphan_timers, salt_file, master_password_hash, credentials, next_id, screen,
                   dialog, crypto_manager, is_locked, auto_lock_timer, clipboard_timer,
                   activity_bound, clipboard, main_pc, main_ref, timer_pc, last_op,
                   secrets_log>>

NextStrength == Validate

SpecStrength == InitStrength /\ [][NextStrength]_vars

(***************************************************************************)
(* The Master Password hash alone: hash_master_password called twice on    *)
(* password pw, verify_master_password called on password pw2 against one  *)
(* of the two hashes or against a malformed stored value                   *)
(***************************************************************************)
\* two passwords of 73 characters that differ in the last one only
PwLongA == [i \in 1..(BCRYPT_MAX_KEY + 1) |-> IF i > BCRYPT_MAX_KEY THEN "1" ELSE "a"]
PwLongB == [i \in 1..(BCRYPT_MAX_KEY + 1) |-> IF i > BCRYPT_MAX_KEY THEN "2" ELSE "a"]
HashPasswords == {<<>>, PwShort, PwStrong, PwOther, PwLongA, PwLongB}

\* Stored values that are no bcrypt hash: None, "", a hash of another scheme,
\* and the genuine hash of `password` with its cost field or its digest damaged
MalformedHashes(password) ==
    LET genuine == hashpw(Encode(password), "2b", BCRYPT_ROUNDS, 1, "truncate").value
    IN  { <<>>,
          <<[genuine EXCEPT !.prefix = ""]>>,
          <<[genuine EXCEPT !.prefix = "argon2id"]>>,
          <<[genuine EXCEPT !.rounds = 0]>>,
          <<[genuine EXCEPT !.digest = BcryptDigest(<<>>, 0, 0)]>> }

InitHash ==
    /\ InitSession
    /\ \E pw \in HashPasswords, pw2 \in HashPasswords, build \in BcryptBuilds :
            fn = [pw |-> pw, pw2 |-> pw2, build |-> build,
                  h1 |-> <<>>, h2 |-> <<>>, res |-> <<>>]

\* hash_master_password(pw), first and second call, with gensalt draw bsalt
HashCall(which, bsalt) ==
    /\ fn[which] = <<>>
    /\ which = "h2" => fn.h1 # <<>>
    /\ fn' = [fn EXCEPT ![which] = <<[draw |-> bsalt,
                                      out |-> hash_master_password(fn.pw, bsalt,
                                                                   fn.build)]>>]
    /\ UNCHANGED <<orphan_timers, salt_file, master_password_hash, credentials, next_id, screen,
                   dialog, crypto_manager, is_locked, auto_lock_timer, clipboard_timer,
                   activity_bound, clipboard, main_pc, main_ref, timer_pc, last_op,
                   secrets_log>>

\* verify_master_password(pw2, h) on the hash a call returned
VerifyHash(which) ==
    /\ fn.res = <<>>
    /\ fn[which] # <<>>
    /\ ~fn[which][1].out.raised
    /\ fn' = [fn EXCEPT !.res = <<[against |-> which,
                                   hashed |-> <<fn[which][1].out.value>>,
                                   out |-> verify_master_password(
                                               fn.pw2, <<fn[which][1].out.value>>,
                                               fn.build)]>>]
    /\ UNCHANGED <<orphan_timers, salt_file, master_password_hash, credentials, next_id, screen,
                   dialog, crypto_manager, is_locked, auto_lock_timer, clipboard_timer,
                   activity_bound, clipboard, main_pc, main_ref, timer_pc, last_op,
                   secrets_log>>

\* verify_master_password(pw2, hashed) on a malformed stored value
VerifyMalformed(hashed) ==
    /\ fn.res = <<>>
    /\ fn' = [fn EXCEPT !.res = <<[against |-> "malformed", hashed |-> hashed,
                                   out |-> verify_master_password(fn.pw2, hashed,
                                                                  fn.build)]>>]
    /\ UNCHANGED <<orphan_timers, salt_file, master_password_hash, credentials, next_id, screen,
                   dialog, crypto_manager, is_locked, auto_lock_timer, clipboard_timer,
                   activity_bound, clipboard, main_pc, main_ref, timer_pc, last_op,
                   secrets_log>>

NextHash ==
    \/ \E which \in {"h1", "h2"}, bsalt \in Rand : HashCall(which, bsalt)
    \/ \E which \in {"h1", "h2"} : VerifyHash(which)
    \/ \E hashed \in MalformedHashes(fn.pw2) : VerifyMalformed(hashed)

SpecHash == InitHash /\ [][NextHash]_vars

(***************************************************************************)
(* password_generator.generate_password                                    *)
(*                                                                         *)
(* The secrets module is a tape of draws: draw number k of tape `seed`     *)
(* below n is randbelow(n, seed, k). Tape 0 always draws 0.                *)
(***************************************************************************)
MIN_LENGTH == 12
MAX_LENGTH == 64

ascii_uppercase == [i \in 1..26 |-> Chr(64 + i)]
ascii_lowercase == [i \in 1..26 |-> Chr(96 + i)]
digits == [i \in 1..10 |-> Chr(47 + i)]
symbols ==
    <<"!", "@", "#", "$", "%", "^", "&", "*", "(", ")", "_", "+", "-", "=", "[", "]",
      "{", "}", "|", ";", ":", ",", ".", "<", ">", "?">>

randbelow(n, seed, k) == (seed * (k + 1)) % n
choice(seq, seed, k) == seq[randbelow(Len(seq), seed, k) + 1]

RECURSIVE Concat(_)
Concat(seqs) == IF seqs = <<>> THEN <<>> ELSE Head(seqs) \o Concat(Tail(seqs))

Swap(chars, i, j) == [chars EXCEPT ![i] = chars[j], ![j] = chars[i]]

\* the Fisher-Yates loop from 0-based index i down to 1, next draw number k
RECURSIVE Shuffle(_, _, _, _)
Shuffle(chars, i, seed, k) ==
    IF i < 1 THEN chars
    ELSE Shuffle(Swap(chars, i + 1, randbelow(i + 1, seed, k) + 1), i - 1, seed, k + 1)

\* the character sets selected, in the order the code appends them
SelectedPools(use_uppercase, use_lowercase, use_digits, use_symbols) ==
    SelectSeq(<<[use |-> use_uppercase, chars |-> ascii_uppercase],
                [use |-> use_lowercase, chars |-> ascii_lowercase],
                [use |-> use_digits, chars |-> digits],
                [use |-> use_symbols, chars |-> symbols]>>,
              LAMBDA p : p.use)

\* generate_password that takes every character from the pool and none from
\* required_chars
generate_password_no_required(length, use_uppercase, use_lowercase, use_digits, use_symbols, seed) ==
    IF length < MIN_LENGTH \/ length > MAX_LENGTH THEN Raised
    ELSE IF ~(use_uppercase \/ use_lowercase \/ use_digits \/ use_symbols) THEN Raised
    ELSE
        LET pools == SelectedPools(use_uppercase, use_lowercase, use_digits, use_symbols)
            character_pool == Concat([i \in 1..Len(pools) |-> pools[i].chars])
            password_chars == [i \in 1..length |-> choice(character_pool, seed, i - 1)]
        IN  Ok(Shuffle(password_chars, Len(password_chars) - 1, seed, length))

\* generate_password on the tape `seed`: Ok(str), or Raised for the ValueError
generate_password(length, use_uppercase, use_lowercase, use_digits, use_symbols, seed) ==
    IF length < MIN_LENGTH \/ length > MAX_LENGTH THEN Raised
    ELSE IF ~(use_uppercase \/ use_lowercase \/ use_digits \/ use_symbols) THEN Raised
    ELSE
        LET pools == SelectedPools(use_uppercase, use_lowercase, use_digits, use_symbols)
            character_pool == Concat([i \in 1..Len(pools) |-> pools[i].chars])
            required_chars == [i \in 1..Len(pools) |-> choice(pools[i].chars, seed, i - 1)]
            remaining_length == length - Len(required_chars)
            random_chars ==
                [i \in 1..remaining_length
                    |-> choice(character_pool, seed, Len(required_chars) + i - 1)]
            password_chars == required_chars \o random_chars
        IN  Ok(Shuffle(password_chars, Len(password_chars) - 1, seed, length))

GenLengths == {0, MIN_LENGTH - 1, MIN_LENGTH, MIN_LENGTH + 4, MAX_LENGTH, MAX_LENGTH + 1}
GenSeeds == 0..NumRand

InitGen ==
    /\ InitSession
    /\ \E length \in GenLengths, uu \in BOOLEAN, ul \in BOOLEAN, ud \in BOOLEAN,
          us \in BOOLEAN :
            fn = [length |-> length, use_uppercase |-> uu, use_lowercase |-> ul,
                  use_digits |-> ud, use_symbols |-> us, out |-> <<>>]

\* generate_new of the generator tab: one call of generate_password
Generate(seed) ==
    /\ fn.out = <<>>
    /\ fn' = [fn EXCEPT !.out = <<generate_password(fn.length, fn.use_uppercase,
                                                    fn.use_lowercase, fn.use_digits,
                                                    fn.use_symbols, seed)>>]
    /\ UNCHANGED <<orphan_timers, salt_file, master_password_hash, credentials, next_id, screen,
                   dialog, crypto_manager, is_locked, auto_lock_timer, clipboard_timer,
                   activity_bound, clipboard, main_pc, main_ref, timer_pc, last_op,
                   secrets_log>>

NextGen == \E seed \in GenSeeds : Generate(seed)

SpecGen == InitGen /\ [][NextGen]_vars

(***************************************************************************)
(* Generator tab: copy_generated                                           *)
(***************************************************************************)
\* the text password_display holds before generate_new has run
PLACEHOLDER ==
    <<"C", "l", "i", "c", "k", " ", "'", "G", "e", "n", "e", "r", "a", "t",
    "e", "'", " ", "t", "o", " ", "c", "r", "e", "a", "t", "e", " ", "a", " ",
    "p", "a", "s", "s", "w", "o", "r", "d">>

\* what password_display can hold: the placeholder or a generated password
DisplayTexts ==
    {PLACEHOLDER, generate_password(MIN_LENGTH, TRUE, TRUE, TRUE, TRUE, 1).value}

\* the "Copy to Clipboard" button of the generator tab; text is the content of
\* password_display, which get("1.0", "end") returns with a newline appended
copy_generated(text) ==
    /\ screen = "dashboard"
    /\ dialog = <<>>
    /\ main_pc = "idle"
    /\ LET password == Strip(text \o <<"\n">>)
       IN  IF password # <<>> /\ password # PLACEHOLDER
           THEN /\ clipboard' = password
                /\ clipboard_timer' = "pending"
                /\ orphan_timers' = [orphan_timers EXCEPT
                        !.clipboard = @ + ClipboardOrphans(clipboard_timer)]
                /\ last_op' = Op("copy_generated")
           ELSE /\ last_op' = Op("other")
                /\ UNCHANGED <<clipboard, clipboard_timer, orphan_timers>>
    /\ UNCHANGED <<salt_file, master_password_hash, credentials, next_id, screen,
                   dialog, crypto_manager, is_locked, auto_lock_timer, activity_bound,
                   main_pc, main_ref, timer_pc, secrets_log, fn>>

(***************************************************************************)
(* The session with the generator tab, and the timers that are left        *)
(* pending expiring: each threading.Timer thread wakes after its interval  *)
(***************************************************************************)
NextClipboard == Next \/ \E text \in DisplayTexts : copy_generated(text)

SpecClipboard ==
    Init /\ [][NextClipboard]_vars /\ WF_vars(AutoLockFire) /\ WF_vars(ClipboardTimerFire)

(***************************************************************************)
(* The auto-lock timer: lock_vault on the Timer thread interleaved with    *)
(* reset_auto_lock on the main thread                                      *)
(***************************************************************************)
\* <Motion> / <Key>, reset_auto_lock lines 46-49: the timer referred to is
\* cancelled and self.is_locked is read
ResetCheck ==
    /\ activity_bound
    /\ main_pc = "idle"
    /\ auto_lock_timer' = Cancel(auto_lock_timer)
    /\ main_pc' = IF is_locked THEN "idle" ELSE "reset_50"
    /\ last_op' = Op("other")
    /\ UNCHANGED <<salt_file, master_password_hash, credentials, next_id, screen,
                   dialog, crypto_manager, is_locked, clipboard_timer, orphan_timers,
                   activity_bound, clipboard, main_ref, timer_pc, secrets_log, fn>>

\* reset_auto_lock lines 50-52: a new Timer is assigned and started
ResetStart ==
    /\ main_pc = "reset_50"
    /\ auto_lock_timer' = "pending"
    /\ orphan_timers' = [orphan_timers EXCEPT !.auto_lock = @ + Orphaned(auto_lock_timer)]
    /\ main_pc' = "idle"
    /\ last_op' = [Op("reset") EXCEPT !.while_locked = is_locked]
    /\ UNCHANGED <<salt_file, master_password_hash, credentials, next_id, screen,
                   dialog, crypto_manager, is_locked, clipboard_timer, activity_bound,
                   clipboard, main_ref, timer_pc, secrets_log, fn>>

NextTimers ==
    \/ \E password \in MasterPasswords, confirm \in MasterPasswords,
          bsalt \in Rand, r \in SaltDraws, io \in SaltIo, build \in BcryptBuilds :
            create_master_password(password, confirm, bsalt, r, io, build)
    \/ \E password \in MasterPasswords, r \in SaltDraws, io \in SaltIo,
          build \in BcryptBuilds :
            unlock_vault(password, r, io, build)
    \/ LockButton
    \/ Restart
    \/ ResetCheck
    \/ ResetStart
    \/ TimerStart
    \/ TimerLock593
    \/ TimerLock594
    \/ TimerLock597

\* a Timer left pending expires unless reset_auto_lock keeps replacing it, and
\* a thread that has begun a callback runs it to its end
FairTimers ==
    /\ []<><<ResetCheck>>_vars \/ WF_vars(TimerStart)
    /\ WF_vars(TimerLock593)
    /\ WF_vars(TimerLock594)
    /\ WF_vars(TimerLock597)
    /\ WF_vars(ResetStart)

SpecTimers == Init /\ [][NextTimers]_vars /\ FairTimers


(***************************************************************************)
(* Properties                                                              *)
(***************************************************************************)
EncryptedBy == fn[fn.tok[1].by][1]
DecryptedBy == fn[fn.res[1].by][1]

\* C1: for every non-empty plaintext P and every CryptoManager bound to a
\* derived key K, decrypt(encrypt(P)) returns exactly P, on the same instance
\* and on any other instance bound to the same K.
C1_RoundTrip ==
    (fn.res # <<>> /\ fn.pt # <<>> /\ EncryptedBy.key = DecryptedBy.key)
        => fn.res[1].out = Ok(fn.pt)

\* a non-empty plaintext encrypted by one instance and decrypted by another
\* instance bound to the same key
C1_Witness ==
    /\ fn.res # <<>>
    /\ fn.pt # <<>>
    /\ fn.tok[1].by # fn.res[1].by
    /\ EncryptedBy.key = DecryptedBy.key
    /\ fn.res[1].out = Ok(fn.pt)

\* C2: for distinct keys K1 # K2 and a non-empty plaintext, decrypt under K2 of
\* a ciphertext produced under K1 raises the decryption-failed ValueError and
\* returns no string.
C2_WrongKeyRejected ==
    (fn.res # <<>> /\ fn.pt # <<>> /\ EncryptedBy.key # DecryptedBy.key)
        => fn.res[1].out = Raised

\* a non-empty plaintext encrypted under one key, decryption attempted under
\* another key that differs only in the salt
C2_Witness ==
    /\ fn.res # <<>>
    /\ fn.pt # <<>>
    /\ EncryptedBy.key # DecryptedBy.key
    /\ EncryptedBy.master_password = DecryptedBy.master_password
    /\ fn.res[1].out.raised

\* C3: once a salt is persisted, every later call of _load_or_create_salt
\* returns that salt and leaves salt.key unchanged; a new 16-byte salt is
\* generated and written only when no salt is persisted.
C3_SaltLoadedUnchanged ==
    [][/\ salt_file # <<>> => salt_file' = salt_file
       /\ (salt_file # <<>> /\ last_op'.salt # <<>>) => last_op'.salt = salt_file
       /\ (salt_file = <<>> /\ last_op'.salt # <<>>)
            => (Len(last_op'.salt[1]) = SALT_LEN /\ salt_file' = last_op'.salt)
       /\ salt_file' # salt_file
            => (salt_file = <<>> /\ last_op'.op \in {"setup", "unlock"})]_vars

\* an unlock in a later session (credentials of an earlier session exist) whose
\* CryptoManager was given the persisted 16-byte salt
C3_Witness ==
    /\ last_op.op = "unlock"
    /\ last_op.salt # <<>>
    /\ last_op.salt = salt_file
    /\ Len(salt_file[1]) = SALT_LEN
    /\ \E e \in secrets_log : e.earlier

\* C4: when salt.key is missing while the vault is initialized (a hash and
\* encrypted credentials exist), unlock aborts: no new salt is generated or
\* written and no cipher is constructed.
C4_UnlockAbortsWithoutSalt ==
    [][(/\ salt_file = <<>>
        /\ master_password_hash # <<>>
        /\ credentials # {}
        /\ last_op'.op = "unlock")
            => (salt_file' = <<>> /\ crypto_manager' = <<>> /\ ~last_op'.derived)]_vars

\* C5: a persisted salt whose length is not 16 bytes makes the CryptoManager
\* constructor fail; every salt used for key derivation is exactly 16 bytes.
C5_SaltLength ==
    /\ crypto_manager # <<>> => Len(crypto_manager[1].salt) = SALT_LEN
    /\ (last_op.derived /\ last_op.salt # <<>>) => Len(last_op.salt[1]) = SALT_LEN

\* C6: a secret encrypted in one session decrypts to its original plaintext in
\* any later session (after lock or restart) unlocked with the same Master
\* Password.
C6_LaterSessionDecrypts ==
    \A e \in secrets_log :
        (/\ crypto_manager # <<>>
         /\ e.earlier
         /\ crypto_manager[1].master_password = e.master_password)
            => \E row \in credentials :
                    /\ row.id = e.id
                    /\ decrypt(crypto_manager[1], row.encrypted_password)
                            = Ok(e.plaintext)

\* a later session, unlocked with the Master Password of the session that
\* saved the secret, has copied that secret to the clipboard
C6_Witness ==
    /\ crypto_manager # <<>>
    /\ last_op.op = "copy_password"
    /\ ~last_op.raised
    /\ \E e \in secrets_log :
            /\ e.earlier
            /\ e.master_password = crypto_manager[1].master_password
            /\ clipboard = e.plaintext

\* C7: when verify_master_password returns false for the entered password, the
\* unlock attempt derives no key and constructs no CryptoManager, the session
\* stays Locked, and salt, hash and credentials are unchanged.
C7_WrongPasswordNoKey ==
    [][(last_op'.op = "unlock" /\ ~last_op'.verified)
            => /\ ~last_op'.derived
               /\ last_op'.salt = <<>>
               /\ crypto_manager' = <<>>
               /\ is_locked'
               /\ screen' = "login"
               /\ UNCHANGED <<salt_file, master_password_hash, credentials>>]_vars

\* a failed unlock attempt on a vault that holds a hash, a salt and credentials
C7_Witness ==
    /\ last_op.op = "unlock"
    /\ ~last_op.verified
    /\ master_password_hash # <<>>
    /\ salt_file # <<>>
    /\ credentials # {}
    /\ is_locked

\* C8: after any sequence of setup, unlock and lock operations a CryptoManager
\* is held iff the session is Unlocked; after lock_vault crypto_manager is None.
C8_CipherIffUnlocked ==
    /\ (crypto_manager # <<>>) <=> ~is_locked
    /\ last_op.op \in {"lock", "auto_lock"} => crypto_manager = <<>>

\* the vault was unlocked, a credential saved, and lock_vault has run
C8_Witness ==
    /\ last_op.op \in {"lock", "auto_lock"}
    /\ credentials # {}
    /\ crypto_manager = <<>>
    /\ is_locked

\* C9: with lock_vault on the timer thread, no encrypt/decrypt call of the main
\* thread completes successfully after is_locked became True, and none reads a
\* usable cipher while is_locked is True.
C9_AtomicHandover ==
    last_op.op \in {"copy_load", "copy_password", "save"} => ~last_op.while_locked

\* C10: once the Master Password hash is stored, no later operation changes it.
C10_HashImmutable ==
    [][master_password_hash # <<>> => master_password_hash' = master_password_hash]_vars

\* C11: verify_master_password(pw, hash_master_password(pw)) is true for every
\* password pw (so a hash is returned for every pw), it is false for every
\* pw2 # pw, and two calls of hash_master_password on the same password
\* (their gensalt draws differing) return different hashes.
C11_HashVerify ==
    /\ \A which \in {"h1", "h2"} : fn[which] # <<>> => ~fn[which][1].out.raised
    /\ (fn.res # <<>> /\ fn.res[1].against \in {"h1", "h2"})
            => fn.res[1].out = Ok(fn.pw2 = fn.pw)
    /\ (fn.h1 # <<>> /\ fn.h2 # <<>> /\ fn.h1[1].draw # fn.h2[1].draw)
            => fn.h1[1].out # fn.h2[1].out

\* C12: verify_master_password returns False and never raises for every
\* malformed stored hash (corrupt, foreign format, empty string, None).
C12_MalformedHashIsFalse ==
    (fn.res # <<>> /\ fn.res[1].against = "malformed") => fn.res[1].out = Ok(FALSE)

\* the genuine hash of the entered password with a foreign scheme prefix:
\* bcrypt.checkpw raises, verify_master_password has returned False
C12_Witness ==
    /\ fn.res # <<>>
    /\ fn.res[1].against = "malformed"
    /\ fn.res[1].hashed # <<>>
    /\ checkpw(Encode(fn.pw2), fn.res[1].hashed[1], fn.build).raised
    /\ fn.res[1].out = Ok(FALSE)

CharClasses ==
    << {Chr(n) : n \in 65..90}, {Chr(n) : n \in 97..122}, {Chr(n) : n \in 48..57},
       SpecialChars >>
ClassesPresent(password) ==
    {k \in 1..4 : \E i \in 1..Len(password) : password[i] \in CharClasses[k]}

\* C14: validate_password_strength returns valid exactly when the password has
\* length >= 8 and characters from at least 3 of the 4 classes {uppercase,
\* lowercase, digit, symbol}; "Ab1!" and "abcdefgh" are invalid, "Abcdefg1" is
\* valid.
C14_StrengthBoundary ==
    fn.out # <<>>
        => /\ fn.out[1] <=> (Len(fn.password) >= 8
                                /\ Cardinality(ClassesPresent(fn.password)) >= 3)
           /\ fn.password \in {PwShort, PwWeak} => ~fn.out[1]
           /\ fn.password = PwStrong => fn.out[1]

\* "Abcdefg1" (length 8, three classes) has been validated and found valid
C14_Witness ==
    /\ fn.out # <<>>
    /\ fn.password = PwStrong
    /\ Len(fn.password) = 8
    /\ Cardinality(ClassesPresent(fn.password)) = 3
    /\ fn.out[1]

C16_EmptyIdentity ==
    /\ (fn.tok # <<>> /\ fn.pt = <<>>) => fn.tok[1].ct = <<>>
    /\ (fn.res # <<>> /\ fn.tok[1].ct = <<>>) => fn.res[1].out = Ok(<<>>)

\* "" encrypted by one instance and decrypted by an instance bound to
\* another key
C16_Witness ==
    /\ fn.res # <<>>
    /\ fn.pt = <<>>
    /\ fn.tok[1].ct = <<>>
    /\ EncryptedBy.key # DecryptedBy.key
    /\ fn.res[1].out = Ok(<<>>)

\* what the program holds: the files and the fields of PasswordManagerGUI
ProgramState ==
    <<salt_file, master_password_hash, credentials, next_id, screen, dialog,
      crypto_manager, is_locked, auto_lock_timer, clipboard_timer, activity_bound,
      clipboard, main_pc, main_ref, timer_pc>>

\* C17: there is no lockout: a rejected unlock attempt changes nothing the
\* program holds (so any number of them leaves the state one of them leaves),
\* and right after rejected attempts an attempt with the correct Master
\* Password (salt.key being readable) can be made and succeeds.
C17_NoLockout ==
    /\ [][Rejected(last_op') => UNCHANGED ProgramState]_vars
    /\ [](Rejected(last_op)
            => \A password \in MasterPasswords \ {<<>>}, r \in SaltDraws,
                  build \in BcryptBuilds :
                    verify_master_password(password, master_password_hash, build).value
                        => ENABLED (/\ unlock_vault(password, r, "ok", build)
                                    /\ ~is_locked'
                                    /\ crypto_manager' # <<>>
                                    /\ crypto_manager'[1].master_password = password
                                    /\ last_op'.verified
                                    /\ last_op'.after_rejected))

\* the vault holds credentials and has been unlocked by the attempt that
\* followed rejected ones
C17_Witness ==
    /\ last_op.op = "unlock"
    /\ last_op.verified
    /\ last_op.after_rejected
    /\ ~is_locked
    /\ crypto_manager # <<>>
    /\ credentials # {}

\* the strings a credentials row stores as they were entered
StoredStrings(row) == {row.website, row.username, row.url, row.notes}

\* C18: persistent storage (salt.key, the settings table, the credentials
\* table) holds neither the Master Password nor the derived key: what is
\* written is a salt, a bcrypt hash, Fernet tokens and plaintext metadata.
C18_NoSecretPersisted ==
    /\ salt_file # <<>> => salt_file[1] \in CipherSalts \cup {<<>>}
    /\ master_password_hash # <<>>
            => LET h == master_password_hash[1]
               IN  /\ h.prefix = "2b"
                   /\ h.rounds = BCRYPT_ROUNDS
                   /\ h.salt \in Rand
                   /\ h.digest = BcryptDigest(h.digest.pw, h.salt, h.rounds)
    /\ \A row \in credentials :
            /\ \A t \in {row.encrypted_password[i] : i \in 1..Len(row.encrypted_password)} :
                    /\ t.ciphertext = AESEncrypt(t.ciphertext.k, t.iv, t.ciphertext.data)
                    /\ t.hmac = HMAC(t.hmac.k, <<t.iv, t.ciphertext>>)
            /\ \A mp \in MasterPasswords :
                    verify_master_password(mp, master_password_hash, "truncate").value
                        => mp \notin StoredStrings(row)
            /\ crypto_manager # <<>>
                    => crypto_manager[1].master_password \notin StoredStrings(row)

\* a session is unlocked (password and key in memory) on a vault that holds
\* a salt, a hash and a saved credential
C18_Witness ==
    /\ crypto_manager # <<>>
    /\ salt_file # <<>>
    /\ master_password_hash # <<>>
    /\ \E row \in credentials : row.encrypted_password # <<>>
    /\ last_op.op = "save"

\* C19: whenever a cipher is live, its key is _derive_key of a password P and
\* the persisted salt at 480000 iterations, P passes verification against the
\* stored hash (at first run: the hash just stored), and an unlock attempt
\* derives a key only after verification has succeeded.
C19_KeyFromVerifiedPassword ==
    [][/\ crypto_manager' # <<>>
            => /\ salt_file' # <<>>
               /\ crypto_manager'[1].key
                    = _derive_key(crypto_manager'[1].master_password, salt_file'[1])
               /\ urlsafe_b64decode(crypto_manager'[1].key).iterations = ITERATIONS
               /\ \A build \in BcryptBuilds :
                    verify_master_password(crypto_manager'[1].master_password,
                                           master_password_hash', build).value
       /\ (last_op'.op = "unlock" /\ last_op'.derived) => last_op'.verified
       /\ (last_op'.op = "setup" /\ last_op'.derived)
            => (crypto_manager' # <<>> /\ master_password_hash' # <<>>)]_vars

\* a later session on a vault that holds credentials: the unlock verified the
\* password, then derived the key of the live cipher from the persisted salt
C19_Witness ==
    /\ last_op.op = "unlock"
    /\ last_op.verified
    /\ last_op.derived
    /\ crypto_manager # <<>>
    /\ salt_file # <<>>
    /\ crypto_manager[1].key = _derive_key(crypto_manager[1].master_password, salt_file[1])
    /\ \E e \in secrets_log :
            e.earlier /\ e.master_password = crypto_manager[1].master_password

\* the classes fn selects, as indices of CharClasses
SelectedClasses ==
    {k \in 1..4 : <<fn.use_uppercase, fn.use_lowercase, fn.use_digits, fn.use_symbols>>[k]}

\* C20: for every length in 12..64 and every non-empty selection of classes,
\* generate_password returns a string of exactly `length` characters, each from
\* the union of the selected classes, with at least one character of every
\* selected class; for a length outside 12..64 or an empty selection it raises
\* ValueError.
C20_GeneratedPassword ==
    fn.out # <<>>
        => IF fn.length \in 12..64 /\ SelectedClasses # {}
           THEN /\ ~fn.out[1].raised
                /\ Len(fn.out[1].value) = fn.length
                /\ \A i \in 1..Len(fn.out[1].value) :
                        \E k \in SelectedClasses : fn.out[1].value[i] \in CharClasses[k]
                /\ \A k \in SelectedClasses :
                        \E i \in 1..Len(fn.out[1].value) :
                            fn.out[1].value[i] \in CharClasses[k]
           ELSE fn.out[1] = Raised

\* a password of 64 characters generated with all four classes selected
C20_Witness ==
    /\ fn.out # <<>>
    /\ fn.length = 64
    /\ SelectedClasses = 1..4
    /\ ~fn.out[1].raised
    /\ Len(fn.out[1].value) = 64
    /\ ClassesPresent(fn.out[1].value) = 1..4

\* the CryptoManager of the session that saved the logged secret e
SessionOf(e) == CryptoManager(e.master_password, salt_file, 1, "ok").cm[1]

\* the stored encrypted_password of row is what encrypt returned, under the key
\* of the session that saved it, for the non-empty password entered
CiphertextUnderSessionKey(row) ==
    /\ row.encrypted_password # <<>>
    /\ \E e \in secrets_log :
            /\ e.id = row.id
            /\ e.plaintext # <<>>
            /\ \E iv \in Rand :
                    row.encrypted_password = encrypt(SessionOf(e), e.plaintext, iv)
            /\ decrypt(SessionOf(e), row.encrypted_password) = Ok(e.plaintext)

\* C21: in every reachable state of the credentials table, each stored
\* encrypted_password is a non-empty ciphertext produced by encrypt under the
\* session key (never the plaintext password and never the empty sentinel),
\* while website, username, url and notes are stored exactly as entered,
\* unencrypted.
C21_StoredAsEntered ==
    /\ [](\A row \in credentials : CiphertextUnderSessionKey(row))
    /\ [][(last_op'.op = "save" /\ ~last_op'.raised)
            => \A website \in Websites, username \in Usernames, password \in Secrets,
                  url \in Urls, notes \in Notes, iv \in Rand :
                    save_credential(website, username, password, url, notes, iv)
                        => \E row \in credentials' :
                            /\ row.encrypted_password
                                    = encrypt(crypto_manager[1], password, iv)
                            /\ row.website = website
                            /\ row.username = username
                            /\ row.url = url
                            /\ row.notes = notes]_vars

\* C21 as amended: each stored encrypted_password is a non-empty ciphertext
\* produced by encrypt under the session key, while website, username, url and
\* notes are stored unencrypted as entered with leading and trailing
\* whitespace removed.
C21_StoredStripped ==
    /\ [](\A row \in credentials : CiphertextUnderSessionKey(row))
    /\ [][(last_op'.op = "save" /\ ~last_op'.raised)
            => \A website \in Websites, username \in Usernames, password \in Secrets,
                  url \in Urls, notes \in Notes, iv \in Rand :
                    save_credential(website, username, password, url, notes, iv)
                        => \E row \in credentials' :
                            /\ row.encrypted_password
                                    = encrypt(crypto_manager[1], password, iv)
                            /\ row.website = Strip(website)
                            /\ row.username = Strip(username)
                            /\ row.url = Strip(url)
                            /\ row.notes = Strip(notes)]_vars

\* a credential has just been saved whose website was entered with a leading
\* blank: the row holds the website without it and a token for the password
C21_Witness ==
    /\ last_op.op = "save"
    /\ ~last_op.raised
    /\ \E row \in credentials :
            /\ <<" ", "w">> \in Websites
            /\ row.website = Strip(<<" ", "w">>)
            /\ row.website # <<" ", "w">>
            /\ CiphertextUnderSessionKey(row)

\* 1 for a Timer that has been started and neither cancelled nor fired
Waiting(timer) == IF timer = "pending" THEN 1 ELSE 0

\* the auto-lock / clipboard Timer threads that are waiting to fire
PendingAutoLock == Waiting(auto_lock_timer) + orphan_timers.auto_lock
PendingClipboard == Waiting(clipboard_timer) + orphan_timers.clipboard

\* neither thread is part-way through a callback
Quiescent == main_pc = "idle" /\ timer_pc = "idle"

\* C22, first part: while the vault is Unlocked exactly one auto-lock timer is
\* pending.
C22_OnePendingWhileUnlocked == (~is_locked /\ Quiescent) => PendingAutoLock = 1

\* C22, second part: while the vault is Locked no auto-lock timer is started.
C22_NoneStartedWhileLocked ==
    [][(is_locked /\ is_locked') => PendingAutoLock' <= PendingAutoLock]_vars

\* C22, third part: if no mouse/key activity occurs the pending timer
\* eventually fires and the vault becomes Locked.
C22_IdleVaultLocks ==
    ([]<><<ResetCheck \/ Activity>>_vars) \/ [](~is_locked => <>is_locked)

\* C22: while the vault is Unlocked exactly one auto-lock timer is pending
\* (each reset_auto_lock cancels the previous one before starting a new one),
\* while Locked no auto-lock timer is started, and if no mouse/key activity
\* occurs the pending timer eventually fires and the vault becomes Locked.
C22_AutoLockTimer ==
    /\ []C22_OnePendingWhileUnlocked
    /\ C22_NoneStartedWhileLocked
    /\ C22_IdleVaultLocks

\* the last handler put a password on the clipboard and it is still there
CopiedPassword ==
    /\ last_op.op \in {"copy_password", "copy_generated"}
    /\ ~last_op.raised
    /\ clipboard # <<>>

\* C23, first part: after a password (decrypted or generated) is copied to the
\* clipboard, the clipboard is eventually overwritten with the empty string.
C23_EventuallyCleared == CopiedPassword ~> (clipboard = <<>>)

\* C23, second part: at most one clipboard timer is pending at a time.
C23_OneClipboardTimer == PendingClipboard <= 1

\* C23, third part: lock_vault always clears the clipboard; no lock leaves a
\* copied password on the clipboard.
C23_LockClearsClipboard == last_op.op \in {"lock", "auto_lock"} => clipboard = <<>>

\* C23: after a password (decrypted or generated) is copied to the clipboard,
\* the clipboard is eventually overwritten with the empty string: either by the
\* 30-second clipboard timer, of which at most one is pending at a time, or by
\* lock_vault, which always clears the clipboard; no lock leaves a copied
\* password on the clipboard.
C23_ClipboardCleared ==
    /\ C23_EventuallyCleared
    /\ []C23_OneClipboardTimer
    /\ []C23_LockClearsClipboard

====
